---- MODULE Spec2Model ----
(***************************************************************************)
(* The endorser's ProcessProposal pipeline (package endorser) as a state   *)
(* machine.  One request is followed from its entry to its return (or      *)
(* panic).  Every call to a collaborator (validation, ledger, ACL          *)
(* provider, chaincode engine, private data distributor, marshalling) is a *)
(* step whose outcome is drawn from the outcomes the call can have; the    *)
(* local variables of the Go functions are the variables of the model and  *)
(* are assigned where the code assigns them.  `log` records the calls made *)
(* to collaborators, in order.                                             *)
(***************************************************************************)
EXTENDS Integers, Sequences, FiniteSets, TLC

VARIABLES
    pc,              \* position of the request in ProcessProposal
    javaEnabled,     \* result of javaEnabled() (peer configuration)
    ccName,          \* hdrExt.ChaincodeId.Name
    chainID,         \* chdr.ChannelId
    txid,            \* chdr.TxId
    txsim,           \* "nil" | "open" | "done": the TxSimulator of the request
    deferred,        \* TRUE once `defer txsim.Done()` has been executed
    cis,             \* cis.ChaincodeSpec.Input.Args
    cdLedger,        \* the resolved ChaincodeDefinition (cd), or NilCD
    version,         \* version handed to callChaincode
    res,             \* response of the simulated execution
    ccevent,         \* "nil" | "event"
    simResult,       \* "nil" | "pub" | "pub+pvt": the TxSimulationResults
    simulationResult,\* pubSimResBytes: "nil" | "rwset"
    caller,          \* the function whose call of callChaincode is running
    escc,            \* name of the endorsement system chaincode selected
    esccRes,         \* response of the ESCC's own execution
    pResp,           \* ProposalResponse under construction
    retResp,         \* ProposalResponse returned by ProcessProposal
    retErr,          \* error returned by ProcessProposal
    log              \* sequence of collaborator calls made by the request

vars == <<pc, javaEnabled, ccName, chainID, txid, txsim, deferred, cis, cdLedger,
          version, res, ccevent, simResult, simulationResult, caller, escc,
          esccRes, pResp, retResp, retErr, log>>

\* the honeybadgerbft chain (orderer/consensus/honeybadgerbft/consensus.go)
VARIABLES
    started,            \* TRUE once Start has returned
    sendConnection,     \* ch.sendConnection: "nil" | "conn"
    receiveConnection,  \* ch.receiveConnection: "nil" | "conn"
    exitChan,           \* ch.exitChan: "open" | "closed"
    sendLock,           \* ch.sendLock: "unlocked" | "locked"
    countEnvelopes,                 \* the package variable
    envelopeMeasurementStartTime,   \* the package variable, -1 until the first envelope
    gpc,                \* position of each calling goroutine
    call,               \* the Order call of each calling goroutine
    haltCompleted,      \* TRUE once a call of Halt has returned
    orders,             \* calls of Order made
    forwarded,          \* envelopes written in full to the send connection
    connPc,             \* position of the connLoop goroutine
    appendPc,           \* position of the appendToChain goroutine
    received,           \* blocks received from the proxy
    appended,           \* blocks appended to the ledger
    panicked            \* "none", or the panic that ended the process

chainVars == <<started, sendConnection, receiveConnection, exitChan, sendLock,
               countEnvelopes, envelopeMeasurementStartTime, gpc, call,
               haltCompleted, orders, forwarded, connPc, appendPc, received,
               appended, panicked>>

\* the goroutines that call Halt and Order
Callers == {"g1", "g2"}
\* the envelopes handed to Order; utils.Marshal fails on the nil envelope
Envelopes == {"env", "nil"}

NoCall == [env |-> "none", afterHalt |-> FALSE, sent |-> "no", ret |-> "none"]

\* newChain, and the package variables
InitChain ==
    /\ started = FALSE
    /\ sendConnection = "nil"
    /\ receiveConnection = "nil"
    /\ exitChan = "open"
    /\ sendLock = "unlocked"
    /\ countEnvelopes = 0
    /\ envelopeMeasurementStartTime = -1
    /\ gpc = [g \in Callers |-> "idle"]
    /\ call = [g \in Callers |-> NoCall]
    /\ haltCompleted = FALSE
    /\ orders = 0
    /\ forwarded = 0
    /\ connPc = "off"
    /\ appendPc = "off"
    /\ received = 0
    /\ appended = 0
    /\ panicked = "none"

----------------------------------------------------------------------------
(* Bounds of the model *)

\* longest argument list of an invocation spec that is drawn
MaxArgs == 3
\* number of distinct payload byte strings a response may carry
NumPayloads == 2

(* Program constants *)

\* shim.ERRORTHRESHOLD
ERRORTHRESHOLD == 400
\* shim.ERROR
ERROR == 500
\* the status of every response ProcessProposal builds for a failure
FailureStatus == 500

----------------------------------------------------------------------------
(* The peer the request runs on *)

\* channels peer.GetLedger knows
Ledgers == {"ch1"}
\* transaction ids already present on the ledger of a channel
CommittedTxs == {"tx1"}

\* syscc.IsSysCC
IsSysCC(name) == name \in {"lscc", "cscc", "escc"}
\* syscc.IsSysCCAndNotInvokableExternal
IsSysCCAndNotInvokableExternal(name) == name \in {"escc"}
\* util.GetSysCCVersion
SysCCVersion == "sysver"

(* Values a request and the collaborators' answers are drawn from *)

Names == {"lscc", "cscc", "escc", "mycc"}
Channels == {"", "ch1", "nochan"}
TxIds == {"", "tx1", "tx2"}
Funcs == {"install", "deploy", "upgrade", "invoke"}
\* serialized deployment specs / chaincode packages passed as arguments
Blobs == {"bad", "java:mycc", "golang:mycc", "golang:escc", "signed:mycc"}
Payloads == {"p" \o ToString(i) : i \in 1..NumPayloads}
Statuses == {200, 400, 500}
Versions == {"1.0"}
EsccNames == {"", "escc", "myescc"}
Messages == {"", "m"}
Events == {"nil", "event"}

\* the place (from 1) of the argument that lscc reads as a deployment spec or
\* chaincode package for function fn; the other arguments are opaque to the
\* endorser
SpecPlace(fn) ==
    CASE fn = "install" -> 2
      [] fn \in {"deploy", "upgrade"} -> 3
      [] OTHER -> 0

\* argument lists of length n >= 1 that call function fn
RECURSIVE ArgLists(_, _)
ArgLists(fn, n) ==
    IF n = 1 THEN {<<fn>>}
    ELSE {Append(a, b) : a \in ArgLists(fn, n - 1),
                         b \in IF n = SpecPlace(fn) THEN Blobs ELSE {"opaque"}}

\* the argument lists of the invocation specs drawn for a request
InvocationArgs ==
    {<< >>} \cup UNION {ArgLists(f, n) : f \in Funcs, n \in 1..MaxArgs}

Range(s) == {s[i] : i \in 1..Len(s)}
Count(s, e) == Cardinality({i \in 1..Len(s) : s[i] = e})

----------------------------------------------------------------------------
(* Values of the Go types *)

\* *pb.Response
Response(status, message, payload) ==
    [Status |-> status, Message |-> message, Payload |-> payload]
NilResponse == Response(0, "", "none")

\* *pb.ProposalResponse: Response, Endorsement, Payload (the proposal response
\* payload bytes, which carry the simulation results and events)
ProposalResponse(response, endorsement, payload) ==
    [isNil |-> FALSE, Response |-> response, Endorsement |-> endorsement,
     Payload |-> payload]
\* a nil *pb.ProposalResponse
NilProposalResponse ==
    [isNil |-> TRUE, Response |-> NilResponse, Endorsement |-> "none",
     Payload |-> "none"]
\* &pb.ProposalResponse{Response: r}
BareProposalResponse(r) == ProposalResponse(r, "none", "none")
\* &pb.ProposalResponse{Response: &pb.Response{Status: 500, Message: err.Error()}}
FailureResponse(msg) == BareProposalResponse(Response(FailureStatus, msg, "none"))

\* error values
NilError == [kind |-> "nil", status |-> 0, msg |-> ""]
Error(msg) == [kind |-> "error", status |-> 0, msg |-> msg]
\* &chaincodeError{status, msg}
chaincodeError(status, msg) == [kind |-> "chaincodeError", status |-> status, msg |-> msg]

\* resourcesconfig.ChaincodeDefinition
NilCD == [isNil |-> TRUE, CCVersion |-> "", Endorsement |-> ""]
ChaincodeDefinitions ==
    [isNil : {FALSE}, CCVersion : Versions, Endorsement : EsccNames]

----------------------------------------------------------------------------
Init ==
    /\ pc = "ValidateProposalMessage"
    /\ javaEnabled \in BOOLEAN
    /\ ccName = ""
    /\ chainID = ""
    /\ txid = ""
    /\ txsim = "nil"
    /\ deferred = FALSE
    /\ cis = << >>
    /\ cdLedger = NilCD
    /\ version = ""
    /\ res = NilResponse
    /\ ccevent = "nil"
    /\ simResult = "nil"
    /\ simulationResult = "nil"
    /\ caller = ""
    /\ escc = ""
    /\ esccRes = NilResponse
    /\ pResp = NilProposalResponse
    /\ retResp = NilProposalResponse
    /\ retErr = NilError
    /\ log = << >>
    /\ InitChain

\* the deferred txsim.Done() runs when ProcessProposal returns or panics
RunDeferred(events) ==
    /\ log' = IF deferred THEN log \o events \o <<"Done">> ELSE log \o events
    /\ txsim' = IF deferred THEN "done" ELSE txsim

\* return resp, err from ProcessProposal, after the calls `events`
Return(resp, err, events) ==
    /\ pc' = "returned"
    /\ retResp' = resp
    /\ retErr' = err
    /\ RunDeferred(events)

\* return &pb.ProposalResponse{Response: &pb.Response{Status: 500, Message: err.Error()}}, err
ReturnFailure(msg, events) == Return(FailureResponse(msg), Error(msg), events)

\* a panic unwinds ProcessProposal: nothing is returned
Panic(events) ==
    /\ pc' = "panicked"
    /\ UNCHANGED <<retResp, retErr>>
    /\ RunDeferred(events)

\* continue at `next` after the calls `events`
Goto(next, events) ==
    /\ pc' = next
    /\ log' = log \o events
    /\ UNCHANGED <<retResp, retErr, txsim>>

----------------------------------------------------------------------------
(* ProcessProposal: validation *)

ValidateProposalMessage ==
    /\ pc = "ValidateProposalMessage"
    /\ \E ok \in BOOLEAN :
          IF ok
          THEN \E n \in Names :
                  /\ ccName' = n
                  /\ Goto("UnmarshalChannelHeader", <<"ValidateProposalMessage">>)
          ELSE /\ ReturnFailure("invalid proposal", <<"ValidateProposalMessage:err">>)
               /\ UNCHANGED ccName
    /\ UNCHANGED <<javaEnabled, chainID, txid, deferred, cis, cdLedger, version,
                   res, ccevent, simResult, simulationResult, caller, escc, esccRes, pResp>>
    /\ UNCHANGED chainVars

UnmarshalChannelHeader ==
    /\ pc = "UnmarshalChannelHeader"
    /\ \E ok \in BOOLEAN :
          IF ok
          THEN \E c \in Channels, t \in TxIds :
                  /\ chainID' = c
                  /\ txid' = t
                  /\ Goto("GetSignatureHeader", <<"UnmarshalChannelHeader">>)
          ELSE /\ ReturnFailure("bad channel header", <<"UnmarshalChannelHeader:err">>)
               /\ UNCHANGED <<chainID, txid>>
    /\ UNCHANGED <<javaEnabled, ccName, deferred, cis, cdLedger, version,
                   res, ccevent, simResult, simulationResult, caller, escc, esccRes, pResp>>
    /\ UNCHANGED chainVars

\* GetSignatureHeader going on after a signature header that does not unmarshal
GetSignatureHeader_IgnoresFailure ==
    /\ pc = "GetSignatureHeader"
    /\ \E ok \in BOOLEAN :
          IF ok
          THEN Goto("CheckInvokable", <<"GetSignatureHeader">>)
          ELSE Goto("CheckInvokable", <<"GetSignatureHeader:err">>)
    /\ UNCHANGED <<javaEnabled, ccName, chainID, txid, deferred, cis, cdLedger,
                   version, res, ccevent, simResult, simulationResult, caller, escc,
                   esccRes, pResp>>
    /\ UNCHANGED chainVars

GetSignatureHeader ==
    /\ pc = "GetSignatureHeader"
    /\ \E ok \in BOOLEAN :
          IF ok
          THEN Goto("CheckInvokable", <<"GetSignatureHeader">>)
          ELSE ReturnFailure("bad signature header", <<"GetSignatureHeader:err">>)
    /\ UNCHANGED <<javaEnabled, ccName, chainID, txid, deferred, cis, cdLedger,
                   version, res, ccevent, simResult, simulationResult, caller, escc, esccRes, pResp>>
    /\ UNCHANGED chainVars

(* ProcessProposal: admission *)

\* CheckInvokable letting every chaincode through
CheckInvokable_Never ==
    /\ pc = "CheckInvokable"
    /\ Goto("CheckTxID", << >>)
    /\ UNCHANGED <<javaEnabled, ccName, chainID, txid, deferred, cis, cdLedger,
                   version, res, ccevent, simResult, simulationResult, caller, escc,
                   esccRes, pResp>>
    /\ UNCHANGED chainVars

\* block invocations to security-sensitive system chaincodes
CheckInvokable ==
    /\ pc = "CheckInvokable"
    /\ IF IsSysCCAndNotInvokableExternal(ccName)
       THEN ReturnFailure("cannot be invoked through a proposal", << >>)
       ELSE Goto("CheckTxID", << >>)
    /\ UNCHANGED <<javaEnabled, ccName, chainID, txid, deferred, cis, cdLedger,
                   version, res, ccevent, simResult, simulationResult, caller, escc, esccRes, pResp>>
    /\ UNCHANGED chainVars

\* CheckTxID sending chainless proposals to the ledger lookup too
CheckTxID_AlwaysLedger ==
    /\ pc = "CheckTxID"
    /\ IF txid = ""
       THEN ReturnFailure("invalid txID", << >>)
       ELSE Goto("GetLedger", << >>)
    /\ UNCHANGED <<javaEnabled, ccName, chainID, txid, deferred, cis, cdLedger,
                   version, res, ccevent, simResult, simulationResult, caller, escc,
                   esccRes, pResp>>
    /\ UNCHANGED chainVars

CheckTxID ==
    /\ pc = "CheckTxID"
    /\ IF txid = ""
       THEN ReturnFailure("invalid txID", << >>)
       ELSE IF chainID # ""
            THEN Goto("GetLedger", << >>)
            ELSE Goto("GetChaincodeInvocationSpec", << >>)
    /\ UNCHANGED <<javaEnabled, ccName, chainID, txid, deferred, cis, cdLedger,
                   version, res, ccevent, simResult, simulationResult, caller, escc, esccRes, pResp>>
    /\ UNCHANGED chainVars

\* lgr := peer.GetLedger(chainID)
GetLedger ==
    /\ pc = "GetLedger"
    /\ IF chainID \notin Ledgers
       THEN Return(NilProposalResponse, Error("failed to look up the ledger"),
                   <<"GetLedger:err">>)
       ELSE Goto("GetTransactionByID", <<"GetLedger">>)
    /\ UNCHANGED <<javaEnabled, ccName, chainID, txid, deferred, cis, cdLedger,
                   version, res, ccevent, simResult, simulationResult, caller, escc, esccRes, pResp>>
    /\ UNCHANGED chainVars

\* GetTransactionByID going on when the transaction is found
GetTransactionByID_IgnoresDuplicate ==
    /\ pc = "GetTransactionByID"
    /\ IF ~IsSysCC(ccName)
       THEN Goto("checkACL", <<"GetTransactionByID">>)
       ELSE Goto("getTxSimulator", <<"GetTransactionByID">>)
    /\ UNCHANGED <<javaEnabled, ccName, chainID, txid, deferred, cis, cdLedger,
                   version, res, ccevent, simResult, simulationResult, caller, escc,
                   esccRes, pResp>>
    /\ UNCHANGED chainVars

\* lgr.GetTransactionByID(txid): err == nil when the transaction is found
GetTransactionByID ==
    /\ pc = "GetTransactionByID"
    /\ IF txid \in CommittedTxs
       THEN Return(NilProposalResponse, Error("duplicate transaction found"),
                   <<"GetTransactionByID">>)
       ELSE IF ~IsSysCC(ccName)
            THEN Goto("checkACL", <<"GetTransactionByID">>)
            ELSE Goto("getTxSimulator", <<"GetTransactionByID">>)
    /\ UNCHANGED <<javaEnabled, ccName, chainID, txid, deferred, cis, cdLedger,
                   version, res, ccevent, simResult, simulationResult, caller, escc, esccRes, pResp>>
    /\ UNCHANGED chainVars

\* checkACL with its error dropped
checkACL_IgnoresFailure ==
    /\ pc = "checkACL"
    /\ \E ok \in BOOLEAN :
          IF ok
          THEN Goto("getTxSimulator", <<"checkACL">>)
          ELSE Goto("getTxSimulator", <<"checkACL:err">>)
    /\ UNCHANGED <<javaEnabled, ccName, chainID, txid, deferred, cis, cdLedger,
                   version, res, ccevent, simResult, simulationResult, caller, escc,
                   esccRes, pResp>>
    /\ UNCHANGED chainVars

\* e.s.CheckACL(signedProp, chdr, shdr, hdrExt)
checkACL ==
    /\ pc = "checkACL"
    /\ \E ok \in BOOLEAN :
          IF ok
          THEN Goto("getTxSimulator", <<"checkACL">>)
          ELSE ReturnFailure("access denied", <<"checkACL:err">>)
    /\ UNCHANGED <<javaEnabled, ccName, chainID, txid, deferred, cis, cdLedger,
                   version, res, ccevent, simResult, simulationResult, caller, escc, esccRes, pResp>>
    /\ UNCHANGED chainVars

----------------------------------------------------------------------------
(* ProcessProposal: the simulator and the history query executor *)

getTxSimulator ==
    /\ pc = "getTxSimulator"
    /\ \E ok \in BOOLEAN :
          IF ok
          THEN /\ pc' = "getHistoryQueryExecutor"
               /\ txsim' = "open"
               /\ log' = log \o <<"getTxSimulator">>
               /\ UNCHANGED <<retResp, retErr>>
          ELSE ReturnFailure("cannot open simulator", <<"getTxSimulator:err">>)
    /\ UNCHANGED <<javaEnabled, ccName, chainID, txid, deferred, cis, cdLedger,
                   version, res, ccevent, simResult, simulationResult, caller, escc, esccRes, pResp>>
    /\ UNCHANGED chainVars

\* on success the code goes on to `defer txsim.Done()`
getHistoryQueryExecutor ==
    /\ pc = "getHistoryQueryExecutor"
    /\ \E ok \in BOOLEAN :
          IF ok
          THEN /\ deferred' = TRUE
               /\ Goto("GetChaincodeInvocationSpec", <<"getHistoryQueryExecutor">>)
          ELSE /\ ReturnFailure("cannot open history query executor",
                                <<"getHistoryQueryExecutor:err">>)
               /\ UNCHANGED deferred
    /\ UNCHANGED <<javaEnabled, ccName, chainID, txid, cis, cdLedger,
                   version, res, ccevent, simResult, simulationResult, caller, escc, esccRes, pResp>>
    /\ UNCHANGED chainVars

----------------------------------------------------------------------------
(* simulateProposal *)

\* putils.GetChaincodeDeploymentSpec / ccprovider.GetCCPackage of an argument:
\* whether the bytes decode
ValidBlob(blob) == blob \in {"java:mycc", "golang:mycc", "golang:escc", "signed:mycc"}
\* putils.GetChaincodeDeploymentSpec: whether the bytes unmarshal as a plain
\* ChaincodeDeploymentSpec (a signed package is a chaincode package but not one)
ValidDepSpec(blob) == blob \in {"java:mycc", "golang:mycc", "golang:escc"}
\* the ChaincodeSpec of the deployment spec the bytes decode to
DepSpec(blob) ==
    CASE blob = "java:mycc" -> [Type |-> "JAVA", Name |-> "mycc"]
      [] blob = "golang:mycc" -> [Type |-> "GOLANG", Name |-> "mycc"]
      [] blob = "golang:escc" -> [Type |-> "GOLANG", Name |-> "escc"]
      [] blob = "signed:mycc" -> [Type |-> "GOLANG", Name |-> "mycc"]
      [] OTHER -> [Type |-> "UNDEFINED", Name |-> ""]

\* cis, err := putils.GetChaincodeInvocationSpec(prop).  The invocation spec of a
\* validated proposal carries its ChaincodeSpec and Input (callChaincode
\* dereferences both); what varies is the argument list.
GetChaincodeInvocationSpec ==
    /\ pc = "GetChaincodeInvocationSpec"
    /\ \E ok \in BOOLEAN :
          IF ok
          THEN \E args \in InvocationArgs :
                  /\ cis' = args
                  /\ Goto("disableJavaCCInst", <<"GetChaincodeInvocationSpec">>)
          ELSE /\ ReturnFailure("bad invocation spec", <<"GetChaincodeInvocationSpec:err">>)
               /\ UNCHANGED cis
    /\ UNCHANGED <<javaEnabled, ccName, chainID, txid, deferred, cdLedger, version,
                   res, ccevent, simResult, simulationResult, caller, escc, esccRes,
                   pResp>>
    /\ UNCHANGED chainVars

\* the index (from 0) of the argument that holds the deployment spec, -1 when
\* the function is none of install, deploy, upgrade
DepSpecArgNo(fn) ==
    CASE fn = "install" -> 1
      [] fn \in {"deploy", "upgrade"} -> 2
      [] OTHER -> -1

\* disableJavaCCInst without the test of the type of the deployment spec
disableJavaCCInst_AllowsJava(name, args, java) ==
    IF name # "lscc" THEN "nil"
    ELSE IF Len(args) < 1 THEN "nil"
    ELSE LET argNo == DepSpecArgNo(args[1]) IN
         IF argNo = -1 THEN "nil"
         ELSE IF argNo >= Len(args) THEN "too few arguments passed"
         ELSE IF ~ValidBlob(args[argNo + 1]) THEN "bad chaincode package"
         ELSE "nil"

\* the error of disableJavaCCInst(cid, cis), "nil" for none
disableJavaCCInst(name, args, java) ==
    IF name # "lscc" THEN "nil"
    ELSE IF Len(args) < 1 THEN "nil"
    ELSE LET argNo == DepSpecArgNo(args[1]) IN
         IF argNo = -1 THEN "nil"
         ELSE IF argNo >= Len(args) THEN "too few arguments passed"
         ELSE IF ~ValidBlob(args[argNo + 1]) THEN "bad chaincode package"
         ELSE IF ~java /\ DepSpec(args[argNo + 1]).Type = "JAVA"
              THEN "Java chaincode is work-in-progress and disabled"
              ELSE "nil"

\* simulateProposal, from the Java pre-check to the choice of the version of a
\* system chaincode (checkEsccAndVscc always returns nil)
CheckJavaCCInst ==
    /\ pc = "disableJavaCCInst"
    /\ LET err == disableJavaCCInst(ccName, cis, javaEnabled) IN
       IF err # "nil"
       THEN /\ ReturnFailure(err, <<"disableJavaCCInst:err">>)
            /\ UNCHANGED <<version, caller>>
       ELSE IF ~IsSysCC(ccName)
            THEN /\ Goto("getCDSFromLSCC", <<"disableJavaCCInst">>)
                 /\ UNCHANGED <<version, caller>>
            ELSE /\ version' = SysCCVersion
                 /\ caller' = "simulateProposal"
                 /\ Goto("callChaincode", <<"disableJavaCCInst">>)
    /\ UNCHANGED <<javaEnabled, ccName, chainID, txid, deferred, cis, cdLedger,
                   res, ccevent, simResult, simulationResult, escc, esccRes, pResp>>
    /\ UNCHANGED chainVars

\* getCDSFromLSCC going on without a definition when the lookup fails
getCDSFromLSCC_IgnoresFailure ==
    /\ pc = "getCDSFromLSCC"
    /\ \E ok \in BOOLEAN :
          IF ok
          THEN \E cd \in ChaincodeDefinitions :
                  /\ cdLedger' = cd
                  /\ version' = cd.CCVersion
                  /\ Goto("CheckInsantiationPolicy", <<"getCDSFromLSCC">>)
          ELSE /\ Goto("CheckInsantiationPolicy", <<"getCDSFromLSCC:err">>)
               /\ UNCHANGED <<cdLedger, version>>
    /\ UNCHANGED <<javaEnabled, ccName, chainID, txid, deferred, cis,
                   res, ccevent, simResult, simulationResult, caller, escc, esccRes,
                   pResp>>
    /\ UNCHANGED chainVars

\* cdLedger, err = e.getCDSFromLSCC(...); version = cdLedger.CCVersion()
getCDSFromLSCC ==
    /\ pc = "getCDSFromLSCC"
    /\ \E ok \in BOOLEAN :
          IF ok
          THEN \E cd \in ChaincodeDefinitions :
                  /\ cdLedger' = cd
                  /\ version' = cd.CCVersion
                  /\ Goto("CheckInsantiationPolicy", <<"getCDSFromLSCC">>)
          ELSE /\ ReturnFailure("make sure the chaincode has been successfully instantiated and try again",
                                <<"getCDSFromLSCC:err">>)
               /\ UNCHANGED <<cdLedger, version>>
    /\ UNCHANGED <<javaEnabled, ccName, chainID, txid, deferred, cis,
                   res, ccevent, simResult, simulationResult, caller, escc, esccRes,
                   pResp>>
    /\ UNCHANGED chainVars

CheckInsantiationPolicy ==
    /\ pc = "CheckInsantiationPolicy"
    /\ \E ok \in BOOLEAN :
          IF ok
          THEN /\ caller' = "simulateProposal"
               /\ Goto("callChaincode", <<"CheckInsantiationPolicy">>)
          ELSE /\ ReturnFailure("instantiation policy violation",
                                <<"CheckInsantiationPolicy:err">>)
               /\ UNCHANGED caller
    /\ UNCHANGED <<javaEnabled, ccName, chainID, txid, deferred, cis, cdLedger,
                   version, res, ccevent, simResult, simulationResult, escc, esccRes,
                   pResp>>
    /\ UNCHANGED chainVars

----------------------------------------------------------------------------
(* callChaincode *)

\* args of the ESCC invocation built by endorseProposal: function name (empty),
\* header, payload, ChaincodeID, response, simulation results, events, visibility
EsccArgs == <<"", "hdr", "payload", "ccid", "res", "simres", "events", "visibility">>

\* the chaincode and the arguments of the running call of callChaincode
CalledName == IF caller = "endorseProposal" THEN escc ELSE ccName
CalledArgs == IF caller = "endorseProposal" THEN EsccArgs ELSE cis

\* the call is lscc's deploy or upgrade: the deployed chaincode is executed
\* under the same TxSimulator
IsDeployOrUpgrade(name, args) ==
    /\ name = "lscc"
    /\ Len(args) >= 3
    /\ (args[1] = "deploy" \/ args[1] = "upgrade")

\* res.Status >= shim.ERRORTHRESHOLD
IsErrorStatus(status) == status >= ERRORTHRESHOLD

\* where the caller of callChaincode continues when it returns without error
AfterCallChaincode ==
    IF caller = "endorseProposal" THEN "GetProposalResponse"
    ELSE IF txsim # "nil" THEN "GetTxSimulationResults"
    ELSE "CheckResponse"

\* the event of the chaincode engine's call, as logged
ExecuteEvent == IF caller = "endorseProposal" THEN "ExecuteESCC" ELSE "ExecuteChaincode"

\* callChaincode up to the lscc special case: chaincode.ExecuteChaincode and the
\* classification of the status of its response.  Both callers turn an error
\* into a status-500 response.
callChaincode ==
    /\ pc = "callChaincode"
    /\ \E ok \in BOOLEAN :
          IF ~ok
          THEN /\ ReturnFailure("chaincode execution failed", <<ExecuteEvent \o ":err">>)
               /\ UNCHANGED <<res, ccevent, esccRes>>
          ELSE \E st \in Statuses, m \in Messages, p \in Payloads, ev \in Events :
                  /\ IF caller = "endorseProposal"
                     THEN /\ esccRes' = Response(st, m, p)
                          /\ UNCHANGED <<res, ccevent>>
                     ELSE /\ res' = Response(st, m, p)
                          /\ ccevent' = IF IsErrorStatus(st) THEN "nil" ELSE ev
                          /\ UNCHANGED esccRes
                  /\ IF IsErrorStatus(st)
                     THEN Goto(AfterCallChaincode, <<ExecuteEvent>>)
                     ELSE IF IsDeployOrUpgrade(CalledName, CalledArgs)
                          THEN Goto("callChaincodeDeploy", <<ExecuteEvent>>)
                          ELSE Goto(AfterCallChaincode, <<ExecuteEvent>>)
    /\ UNCHANGED <<javaEnabled, ccName, chainID, txid, deferred, cis, cdLedger,
                   version, simResult, simulationResult, caller, escc, pResp>>
    /\ UNCHANGED chainVars

\* callChaincodeDeploy going on when the execution of the deployed chaincode fails
callChaincodeDeploy_IgnoresFailure ==
    /\ pc = "callChaincodeDeploy"
    /\ LET blob == CalledArgs[3] IN
       IF ~ValidDepSpec(blob)
       THEN ReturnFailure("bad deployment spec", <<"GetChaincodeDeploymentSpec:err">>)
       ELSE IF IsSysCC(DepSpec(blob).Name)
       THEN ReturnFailure("attempting to deploy a system chaincode",
                          <<"GetChaincodeDeploymentSpec", "IsSysCC:err">>)
       ELSE \E ok \in BOOLEAN :
               IF ok
               THEN Goto(AfterCallChaincode, <<"GetChaincodeDeploymentSpec", "Execute">>)
               ELSE Goto(AfterCallChaincode, <<"GetChaincodeDeploymentSpec", "Execute:err">>)
    /\ UNCHANGED <<javaEnabled, ccName, chainID, txid, deferred, cis, cdLedger,
                   version, res, ccevent, simResult, simulationResult, caller, escc,
                   esccRes, pResp>>
    /\ UNCHANGED chainVars

\* the lscc special case: the deployment spec is extracted from the third
\* argument and the deployed chaincode is executed (chaincode.Execute)
callChaincodeDeploy ==
    /\ pc = "callChaincodeDeploy"
    /\ LET blob == CalledArgs[3] IN
       IF ~ValidDepSpec(blob)
       THEN ReturnFailure("bad deployment spec", <<"GetChaincodeDeploymentSpec:err">>)
       ELSE IF IsSysCC(DepSpec(blob).Name)
       THEN ReturnFailure("attempting to deploy a system chaincode",
                          <<"GetChaincodeDeploymentSpec", "IsSysCC:err">>)
       ELSE \E ok \in BOOLEAN :
               IF ok
               THEN Goto(AfterCallChaincode, <<"GetChaincodeDeploymentSpec", "Execute">>)
               ELSE ReturnFailure("deploy failed", <<"GetChaincodeDeploymentSpec", "Execute:err">>)
    /\ UNCHANGED <<javaEnabled, ccName, chainID, txid, deferred, cis, cdLedger,
                   version, res, ccevent, simResult, simulationResult, caller, escc,
                   esccRes, pResp>>
    /\ UNCHANGED chainVars

----------------------------------------------------------------------------
(* simulateProposal: the simulation results *)

\* GetTxSimulationResults followed by the public bytes, the private subset not
\* handed to the distributor
GetTxSimulationResults_SkipsDistribution ==
    /\ pc = "GetTxSimulationResults"
    /\ \E r \in {"err", "pub", "pub+pvt"} :
          IF r = "err"
          THEN /\ ReturnFailure("no simulation results", <<"GetTxSimulationResults:err">>)
               /\ UNCHANGED simResult
          ELSE /\ simResult' = r
               /\ Goto("GetPubSimulationBytes", <<"GetTxSimulationResults">>)
    /\ UNCHANGED <<javaEnabled, ccName, chainID, txid, deferred, cis, cdLedger,
                   version, res, ccevent, simulationResult, caller, escc, esccRes,
                   pResp>>
    /\ UNCHANGED chainVars

\* simResult, err = txsim.GetTxSimulationResults()
GetTxSimulationResults ==
    /\ pc = "GetTxSimulationResults"
    /\ \E r \in {"err", "pub", "pub+pvt"} :
          IF r = "err"
          THEN /\ ReturnFailure("no simulation results", <<"GetTxSimulationResults:err">>)
               /\ UNCHANGED simResult
          ELSE /\ simResult' = r
               /\ IF r = "pub+pvt"
                  THEN Goto("distributePrivateData", <<"GetTxSimulationResults">>)
                  ELSE Goto("GetPubSimulationBytes", <<"GetTxSimulationResults">>)
    /\ UNCHANGED <<javaEnabled, ccName, chainID, txid, deferred, cis, cdLedger,
                   version, res, ccevent, simulationResult, caller, escc, esccRes,
                   pResp>>
    /\ UNCHANGED chainVars

\* distributePrivateData with the distributor's error dropped
distributePrivateData_IgnoresFailure ==
    /\ pc = "distributePrivateData"
    /\ \E ok \in BOOLEAN :
          IF ok
          THEN Goto("GetPubSimulationBytes", <<"distributePrivateData">>)
          ELSE Goto("GetPubSimulationBytes", <<"distributePrivateData:err">>)
    /\ UNCHANGED <<javaEnabled, ccName, chainID, txid, deferred, cis, cdLedger,
                   version, res, ccevent, simResult, simulationResult, caller, escc,
                   esccRes, pResp>>
    /\ UNCHANGED chainVars

\* e.distributePrivateData(chainID, txid, simResult.PvtSimulationResults)
distributePrivateData ==
    /\ pc = "distributePrivateData"
    /\ \E ok \in BOOLEAN :
          IF ok
          THEN Goto("GetPubSimulationBytes", <<"distributePrivateData">>)
          ELSE ReturnFailure("private data distribution failed",
                             <<"distributePrivateData:err">>)
    /\ UNCHANGED <<javaEnabled, ccName, chainID, txid, deferred, cis, cdLedger,
                   version, res, ccevent, simResult, simulationResult, caller, escc,
                   esccRes, pResp>>
    /\ UNCHANGED chainVars

\* pubSimResBytes, err = simResult.GetPubSimulationBytes()
GetPubSimulationBytes ==
    /\ pc = "GetPubSimulationBytes"
    /\ \E ok \in BOOLEAN :
          IF ok
          THEN /\ simulationResult' = "rwset"
               /\ Goto("CheckResponse", <<"GetPubSimulationBytes">>)
          ELSE /\ ReturnFailure("cannot serialize simulation results",
                                <<"GetPubSimulationBytes:err">>)
               /\ UNCHANGED simulationResult
    /\ UNCHANGED <<javaEnabled, ccName, chainID, txid, deferred, cis, cdLedger,
                   version, res, ccevent, simResult, caller, escc, esccRes, pResp>>
    /\ UNCHANGED chainVars

----------------------------------------------------------------------------
(* ProcessProposal: the response of the simulation *)

\* CheckResponse refusing to endorse from shim.ERRORTHRESHOLD on
CheckResponse_RejectsFromThreshold ==
    /\ pc = "CheckResponse"
    /\ IF res.Status >= ERRORTHRESHOLD
       THEN /\ \E marshalled \in BOOLEAN, created \in BOOLEAN :
                  IF ccevent # "nil" /\ ~marshalled
                  THEN Return(NilProposalResponse,
                              Error("failed to marshal event bytes"), << >>)
                  ELSE IF ~created
                  THEN ReturnFailure("cannot create proposal response", << >>)
                  ELSE Return(ProposalResponse(res, "none", "prp"),
                              chaincodeError(res.Status, res.Message), << >>)
            /\ UNCHANGED pResp
       ELSE IF chainID = ""
       THEN /\ pResp' = BareProposalResponse(res)
            /\ Goto("SetPayload", << >>)
       ELSE /\ Goto("endorseProposal", << >>)
            /\ UNCHANGED pResp
    /\ UNCHANGED <<javaEnabled, ccName, chainID, txid, deferred, cis, cdLedger,
                   version, res, ccevent, simResult, simulationResult, caller, escc,
                   esccRes>>
    /\ UNCHANGED chainVars

\* lines 482-519 up to the call of endorseProposal: a response of status >=
\* shim.ERROR is returned as a failure response with a chaincodeError; a
\* chainless proposal is not endorsed
CheckResponse ==
    /\ pc = "CheckResponse"
    /\ IF res.Status >= ERROR
       THEN /\ \E marshalled \in BOOLEAN, created \in BOOLEAN :
                  IF ccevent # "nil" /\ ~marshalled
                  THEN Return(NilProposalResponse,
                              Error("failed to marshal event bytes"), << >>)
                  ELSE IF ~created
                  THEN ReturnFailure("cannot create proposal response", << >>)
                  ELSE Return(ProposalResponse(res, "none", "prp"),
                              chaincodeError(res.Status, res.Message), << >>)
            /\ UNCHANGED pResp
       ELSE IF chainID = ""
       THEN /\ pResp' = BareProposalResponse(res)
            /\ Goto("SetPayload", << >>)
       ELSE /\ Goto("endorseProposal", << >>)
            /\ UNCHANGED pResp
    /\ UNCHANGED <<javaEnabled, ccName, chainID, txid, deferred, cis, cdLedger,
                   version, res, ccevent, simResult, simulationResult, caller, escc,
                   esccRes>>
    /\ UNCHANGED chainVars

----------------------------------------------------------------------------
(* endorseProposal *)

\* the default escc chosen whatever the definition names
SelectEscc_AlwaysDefault(cd) == "escc"

\* the escc that endorses: "escc" when no definition was resolved (cd == nil),
\* else the one the definition names
SelectEscc(cd) == IF cd.isNil THEN "escc" ELSE cd.Endorsement

\* endorseProposal up to its call of callChaincode: the choice of the escc (a
\* panic when the definition names none), the marshalling of the event, of
\* the response and of the ChaincodeID
endorseProposal ==
    /\ pc = "endorseProposal"
    /\ IF SelectEscc(cdLedger) = ""
       THEN /\ Panic(<<"endorseProposal", "panic">>)
            /\ UNCHANGED <<escc, version, caller>>
       ELSE \E m \in {"ok", "event", "response", "ccid"} :
               IF m = "event" /\ ccevent # "nil"
               THEN /\ ReturnFailure("failed to marshal event bytes",
                                  <<"endorseProposal", "Marshal:err">>)
                    /\ UNCHANGED <<escc, version, caller>>
               ELSE IF m = "response"
               THEN /\ ReturnFailure("failed to marshal response bytes",
                                  <<"endorseProposal", "Marshal:err">>)
                    /\ UNCHANGED <<escc, version, caller>>
               ELSE IF m = "ccid"
               THEN /\ ReturnFailure("failed to marshal ChaincodeID",
                                  <<"endorseProposal", "Marshal:err">>)
                    /\ UNCHANGED <<escc, version, caller>>
               ELSE /\ escc' = SelectEscc(cdLedger)
                    /\ version' = SysCCVersion
                    /\ caller' = "endorseProposal"
                    /\ Goto("callChaincode", <<"endorseProposal">>)
    /\ UNCHANGED <<javaEnabled, ccName, chainID, txid, deferred, cis, cdLedger,
                   res, ccevent, simResult, simulationResult, esccRes, pResp>>
    /\ UNCHANGED chainVars

\* the endorsements an ESCC's payload may unpack to: a ProposalResponse with a
\* Response (line 524 dereferences it), the endorsement and the proposal
\* response payload
UnpackedResponses ==
    {ProposalResponse(Response(200, "", p), "endorsement", "prp") : p \in Payloads \cup {"none"}}

\* GetProposalResponse unpacking the payload of an ESCC response of any status
GetProposalResponse_UnpacksOnError ==
    /\ pc = "GetProposalResponse"
    /\ \E unpacked \in UnpackedResponses, ok \in BOOLEAN :
          IF ~ok
          THEN /\ ReturnFailure("cannot unmarshal proposal response",
                                <<"GetProposalResponse:err">>)
               /\ UNCHANGED pResp
          ELSE IF IsErrorStatus(res.Status)
          THEN /\ Return(unpacked, chaincodeError(res.Status, res.Message),
                         <<"GetProposalResponse">>)
               /\ UNCHANGED pResp
          ELSE /\ pResp' = unpacked
               /\ Goto("SetPayload", <<"GetProposalResponse">>)
    /\ UNCHANGED <<javaEnabled, ccName, chainID, txid, deferred, cis, cdLedger,
                   version, res, ccevent, simResult, simulationResult, caller, escc,
                   esccRes>>
    /\ UNCHANGED chainVars

\* endorseProposal after its call of callChaincode (lines 364-384), and what
\* ProcessProposal does with its result (lines 510-519)
GetProposalResponse ==
    /\ pc = "GetProposalResponse"
    /\ \E unpacked \in UnpackedResponses, ok \in BOOLEAN :
          LET pr == IF IsErrorStatus(esccRes.Status)
                    THEN BareProposalResponse(esccRes)
                    ELSE unpacked
              Unpacking == IF IsErrorStatus(esccRes.Status)
                           THEN << >>
                           ELSE <<"GetProposalResponse">>
          IN  IF ~IsErrorStatus(esccRes.Status) /\ ~ok
              THEN /\ ReturnFailure("cannot unmarshal proposal response",
                                    <<"GetProposalResponse:err">>)
                   /\ UNCHANGED pResp
              ELSE IF IsErrorStatus(res.Status)
              THEN /\ Return(pr, chaincodeError(res.Status, res.Message), Unpacking)
                   /\ UNCHANGED pResp
              ELSE /\ pResp' = pr
                   /\ Goto("SetPayload", Unpacking)
    /\ UNCHANGED <<javaEnabled, ccName, chainID, txid, deferred, cis, cdLedger,
                   version, res, ccevent, simResult, simulationResult, caller, escc,
                   esccRes>>
    /\ UNCHANGED chainVars

\* SetPayload returning the response with the payload it came with
SetPayload_KeepsPayload ==
    /\ pc = "SetPayload"
    /\ Return(pResp, NilError, << >>)
    /\ UNCHANGED <<javaEnabled, ccName, chainID, txid, deferred, cis, cdLedger,
                   version, res, ccevent, simResult, simulationResult, caller, escc,
                   esccRes, pResp>>
    /\ UNCHANGED chainVars

\* pResp.Response.Payload = res.Payload; return pResp, nil
SetPayload ==
    /\ pc = "SetPayload"
    /\ Return([pResp EXCEPT !.Response.Payload = res.Payload], NilError, << >>)
    /\ UNCHANGED <<javaEnabled, ccName, chainID, txid, deferred, cis, cdLedger,
                   version, res, ccevent, simResult, simulationResult, caller, escc,
                   esccRes, pResp>>
    /\ UNCHANGED chainVars

----------------------------------------------------------------------------
Next ==
    \/ ValidateProposalMessage
    \/ UnmarshalChannelHeader
    \/ GetSignatureHeader
    \/ CheckInvokable
    \/ CheckTxID
    \/ GetLedger
    \/ GetTransactionByID
    \/ checkACL
    \/ getTxSimulator
    \/ getHistoryQueryExecutor
    \/ GetChaincodeInvocationSpec
    \/ CheckJavaCCInst
    \/ getCDSFromLSCC
    \/ CheckInsantiationPolicy
    \/ callChaincode
    \/ callChaincodeDeploy
    \/ GetTxSimulationResults
    \/ distributePrivateData
    \/ GetPubSimulationBytes
    \/ CheckResponse
    \/ endorseProposal
    \/ GetProposalResponse
    \/ SetPayload

----------------------------------------------------------------------------
(* The honeybadgerbft chain *)

\* bounds: the Order calls made and the blocks the proxy delivers
MaxOrders == 2
MaxBlocks == 2

\* var interval = int64(10000)
interval == 10000

\* Start: both sockets are dialled; a failed dial returns before the goroutines
\* are started
Start ==
    /\ panicked = "none"
    /\ ~started
    /\ started' = TRUE
    /\ \E sendOk \in BOOLEAN, recvOk \in BOOLEAN :
          IF ~sendOk
          THEN UNCHANGED <<sendConnection, receiveConnection, connPc, appendPc>>
          ELSE IF ~recvOk
          THEN /\ sendConnection' = "conn"
               /\ UNCHANGED <<receiveConnection, connPc, appendPc>>
          ELSE /\ sendConnection' = "conn"
               /\ receiveConnection' = "conn"
               /\ connPc' = "recvBytes"
               /\ appendPc' = "select"
    /\ UNCHANGED <<exitChan, sendLock, countEnvelopes, envelopeMeasurementStartTime,
                   gpc, call, haltCompleted, orders, forwarded, received, appended,
                   panicked>>
    /\ UNCHANGED vars

\* Halt, the select: a closed exitChan returns, an open one takes the default
Halt(g) ==
    /\ panicked = "none"
    /\ gpc[g] = "idle"
    /\ IF exitChan = "closed"
       THEN /\ haltCompleted' = TRUE
            /\ UNCHANGED gpc
       ELSE /\ gpc' = [gpc EXCEPT ![g] = "close"]
            /\ UNCHANGED haltCompleted
    /\ UNCHANGED <<started, sendConnection, receiveConnection, exitChan, sendLock,
                   countEnvelopes, envelopeMeasurementStartTime, call, orders,
                   forwarded, connPc, appendPc, received, appended, panicked>>
    /\ UNCHANGED vars

\* Halt, the default case: close(ch.exitChan), which panics on a closed channel
Halt_close(g) ==
    /\ panicked = "none"
    /\ gpc[g] = "close"
    /\ IF exitChan = "closed"
       THEN /\ panicked' = "close of closed channel"
            /\ UNCHANGED <<exitChan, gpc, haltCompleted>>
       ELSE /\ exitChan' = "closed"
            /\ gpc' = [gpc EXCEPT ![g] = "idle"]
            /\ haltCompleted' = TRUE
            /\ UNCHANGED panicked
    /\ UNCHANGED <<started, sendConnection, receiveConnection, sendLock,
                   countEnvelopes, envelopeMeasurementStartTime, call, orders,
                   forwarded, connPc, appendPc, received, appended>>
    /\ UNCHANGED vars

\* a goroutine calls Order(env, _)
Order(g) ==
    /\ panicked = "none"
    /\ started
    /\ gpc[g] = "idle"
    /\ orders < MaxOrders
    /\ orders' = orders + 1
    /\ \E env \in Envelopes :
          call' = [call EXCEPT ![g] = [env |-> env, afterHalt |-> haltCompleted,
                                       sent |-> "no", ret |-> "none"]]
    /\ gpc' = [gpc EXCEPT ![g] = "sendEnvToBFTProxy"]
    /\ UNCHANGED <<started, sendConnection, receiveConnection, exitChan, sendLock,
                   countEnvelopes, envelopeMeasurementStartTime, haltCompleted,
                   forwarded, connPc, appendPc, received, appended, panicked>>
    /\ UNCHANGED vars

\* Order returns err to its caller
OrderReturns(g, err) ==
    /\ call' = [call EXCEPT ![g].ret = err]
    /\ gpc' = [gpc EXCEPT ![g] = "idle"]

\* sendEnvToBFTProxy, from Lock to its return, and Order's `if err != nil`: the
\* returns on a Marshal or sendLength error leave sendLock locked, and a nil
\* sendConnection makes sendLength panic
sendEnvToBFTProxy(g) ==
    /\ panicked = "none"
    /\ gpc[g] = "sendEnvToBFTProxy"
    /\ sendLock = "unlocked"
    /\ IF call[g].env = "nil"
       THEN /\ sendLock' = "locked"
            /\ OrderReturns(g, "err")
            /\ UNCHANGED <<forwarded, panicked>>
       ELSE IF sendConnection = "nil"
       THEN /\ sendLock' = "locked"
            /\ panicked' = "nil sendConnection"
            /\ UNCHANGED <<gpc, call, forwarded>>
       ELSE \E outcome \in {"sendLength:err", "Write:err", "ok"} :
               CASE outcome = "sendLength:err" ->
                       /\ sendLock' = "locked"
                       /\ OrderReturns(g, "err")
                       /\ UNCHANGED <<forwarded, panicked>>
                 [] outcome = "Write:err" ->
                       /\ sendLock' = "unlocked"
                       /\ OrderReturns(g, "err")
                       /\ UNCHANGED <<forwarded, panicked>>
                 [] outcome = "ok" ->
                       /\ sendLock' = "unlocked"
                       /\ forwarded' = forwarded + 1
                       /\ call' = [call EXCEPT ![g].sent = exitChan]
                       /\ gpc' = [gpc EXCEPT ![g] = "measure"]
                       /\ UNCHANGED panicked
    /\ UNCHANGED <<started, sendConnection, receiveConnection, exitChan,
                   countEnvelopes, envelopeMeasurementStartTime, haltCompleted,
                   orders, connPc, appendPc, received, appended>>
    /\ UNCHANGED vars

\* Order, the throughput measurement; time.Now().UnixNano() is abstracted to 1,
\* and an increment racing with another goroutine's may be lost
Order_measure(g) ==
    /\ panicked = "none"
    /\ gpc[g] = "measure"
    /\ \E lost \in IF \E h \in Callers \ {g} : gpc[h] = "measure"
                  THEN BOOLEAN ELSE {FALSE} :
          /\ countEnvelopes' = IF lost THEN countEnvelopes ELSE countEnvelopes + 1
          /\ envelopeMeasurementStartTime' =
                IF envelopeMeasurementStartTime = -1 \/ countEnvelopes' % interval = 0
                THEN 1 ELSE envelopeMeasurementStartTime
    /\ gpc' = [gpc EXCEPT ![g] = "select"]
    /\ UNCHANGED <<started, sendConnection, receiveConnection, exitChan, sendLock,
                   call, haltCompleted, orders, forwarded, connPc, appendPc,
                   received, appended, panicked>>
    /\ UNCHANGED vars

\* Order, the final select: "exiting" when exitChan is closed, nil otherwise
Order_select(g) ==
    /\ panicked = "none"
    /\ gpc[g] = "select"
    /\ OrderReturns(g, IF exitChan = "closed" THEN "err" ELSE "nil")
    /\ UNCHANGED <<started, sendConnection, receiveConnection, exitChan, sendLock,
                   countEnvelopes, envelopeMeasurementStartTime, haltCompleted,
                   orders, forwarded, connPc, appendPc, received, appended, panicked>>
    /\ UNCHANGED vars

\* connLoop: a block is received from the proxy, or the error is logged and
\* the loop continues
connLoop ==
    /\ panicked = "none"
    /\ connPc = "recvBytes"
    /\ received < MaxBlocks
    /\ \E ok \in BOOLEAN :
          IF ok
          THEN /\ received' = received + 1
               /\ connPc' = "send"
          ELSE UNCHANGED <<received, connPc>>
    /\ UNCHANGED <<started, sendConnection, receiveConnection, exitChan, sendLock,
                   countEnvelopes, envelopeMeasurementStartTime, gpc, call,
                   haltCompleted, orders, forwarded, appendPc, appended, panicked>>
    /\ UNCHANGED vars

\* appendToChain, case block := <-ch.sendChan: the rendezvous with connLoop's
\* send on the unbuffered channel, then AppendBlock
appendToChain ==
    /\ panicked = "none"
    /\ appendPc = "select"
    /\ connPc = "send"
    /\ connPc' = "recvBytes"
    /\ \E ok \in BOOLEAN :
          IF ok
          THEN /\ appended' = appended + 1
               /\ UNCHANGED panicked
          ELSE /\ panicked' = "AppendBlock"
               /\ UNCHANGED appended
    /\ UNCHANGED <<started, sendConnection, receiveConnection, exitChan, sendLock,
                   countEnvelopes, envelopeMeasurementStartTime, gpc, call,
                   haltCompleted, orders, forwarded, appendPc, received>>
    /\ UNCHANGED vars

\* appendToChain, case <-ch.exitChan: return
appendToChain_exit ==
    /\ panicked = "none"
    /\ appendPc = "select"
    /\ exitChan = "closed"
    /\ appendPc' = "returned"
    /\ UNCHANGED <<started, sendConnection, receiveConnection, exitChan, sendLock,
                   countEnvelopes, envelopeMeasurementStartTime, gpc, call,
                   haltCompleted, orders, forwarded, connPc, received, appended,
                   panicked>>
    /\ UNCHANGED vars

NextChain ==
    \/ Start
    \/ \E g \in Callers : Halt(g)
    \/ \E g \in Callers : Halt_close(g)
    \/ \E g \in Callers : Order(g)
    \/ \E g \in Callers : sendEnvToBFTProxy(g)
    \/ \E g \in Callers : Order_measure(g)
    \/ \E g \in Callers : Order_select(g)
    \/ connLoop
    \/ appendToChain
    \/ appendToChain_exit

\* the endorser serving one request, the chain left as constructed
Spec == Init /\ [][Next]_<<vars, chainVars>>

\* the chain, the endorser left idle
SpecChain == Init /\ [][NextChain]_<<vars, chainVars>>

----------------------------------------------------------------------------
(* Properties *)

\* the call e was made (and succeeded or failed)
Called(e) == e \in Range(log) \/ (e \o ":err") \in Range(log)

\* ProcessProposal has returned or panicked
Terminated == pc \in {"returned", "panicked"}

\* no chaincode was executed: neither the proposal's, nor a deployed one, nor an ESCC
NoExecution ==
    ~Called("ExecuteChaincode") /\ ~Called("Execute") /\ ~Called("ExecuteESCC")

\* C1: once getTxSimulator has returned a simulator, Done is called on it
\* exactly once by the time the request terminates, whichever later step fails.
C1_SimulatorReleasedExactlyOnce ==
    (Terminated /\ "getTxSimulator" \in Range(log)) => Count(log, "Done") = 1

\* C2: ProcessProposal returns a nil ProposalResponse only when the lookup of
\* the channel's ledger fails; every other path that fails with an error
\* returns a non-nil response of status >= 500 with a non-empty message.
C2_NilResponseOnlyOnLedgerLookupFailure ==
    (pc = "returned" /\ retErr.kind = "error") =>
        IF "GetLedger:err" \in Range(log)
        THEN retResp.isNil
        ELSE /\ ~retResp.isNil
             /\ retResp.Response.Status >= 500
             /\ retResp.Response.Message # ""

\* C3: when the simulated execution completes with a response of status >=
\* ERRORTHRESHOLD and no later step fails, ProcessProposal returns a non-nil
\* response together with a chaincodeError carrying that status and message,
\* for channel-scoped and chainless proposals alike.
C3_ErrorStatusYieldsChaincodeError ==
    (/\ pc = "returned"
     /\ "ExecuteChaincode" \in Range(log)
     /\ res.Status >= ERRORTHRESHOLD
     /\ retErr.kind # "error") =>
        /\ ~retResp.isNil
        /\ retErr = chaincodeError(res.Status, res.Message)

\* C4: when private data distribution fails, the ESCC is never invoked and
\* the request returns a status-500 response that carries no endorsement.
C4_NoEndorsementAfterDistributionFailure ==
    "distributePrivateData:err" \in Range(log) =>
        /\ ~Called("ExecuteESCC")
        /\ pc = "returned"
        /\ ~retResp.isNil
        /\ retResp.Response.Status = 500
        /\ retResp.Endorsement = "none"
        /\ retErr.kind = "error"

C4_Witness ==
    /\ "distributePrivateData:err" \in Range(log)
    /\ pc = "returned"
    /\ txsim = "done"

\* a step of the validation of the signed proposal failed
ValidationFailed ==
    \E e \in {"ValidateProposalMessage:err", "UnmarshalChannelHeader:err",
              "GetSignatureHeader:err"} : e \in Range(log)

\* C5: a signed proposal that fails validation gets a status-500 response,
\* and the request makes no ledger lookup, acquires no simulator and executes
\* no chaincode.
C5_MalformedProposalRejected ==
    ValidationFailed =>
        /\ pc = "returned"
        /\ ~retResp.isNil
        /\ retResp.Response.Status = 500
        /\ ~Called("GetLedger")
        /\ ~Called("GetTransactionByID")
        /\ ~Called("getTxSimulator")
        /\ txsim = "nil"
        /\ NoExecution

C5_Witness ==
    /\ "GetSignatureHeader:err" \in Range(log)
    /\ pc = "returned"
    /\ chainID = "ch1"

\* the duplicate check of a channel-scoped proposal found the transaction id
DuplicateFound == Called("GetTransactionByID") /\ txid \in CommittedTxs

\* C6: a channel-scoped proposal whose transaction id is already on the
\* channel's ledger fails with the duplicate-transaction error, and the
\* request makes no ACL check, acquires no simulator, executes and endorses
\* nothing.
C6_DuplicateTransactionRejected ==
    DuplicateFound =>
        /\ pc = "returned"
        /\ retErr = Error("duplicate transaction found")
        /\ ~Called("checkACL")
        /\ ~Called("getTxSimulator")
        /\ txsim = "nil"
        /\ NoExecution

C6_Witness == DuplicateFound /\ pc = "returned" /\ ~IsSysCC(ccName)

\* a validated proposal with an empty channel id
Chainless == "GetSignatureHeader" \in Range(log) /\ chainID = ""

NotInvokable ==
    /\ "GetSignatureHeader" \in Range(log)
    /\ IsSysCCAndNotInvokableExternal(ccName)
    /\ pc # "CheckInvokable"

\* C8: a validated proposal for a system chaincode that is not invokable
\* externally is rejected with a status-500 response before the ledger
\* lookup, the duplicate check, the ACL check, the acquisition of a simulator
\* and any execution, whatever its channel.
C8_NotInvokableRejectedFirst ==
    NotInvokable =>
        /\ pc = "returned"
        /\ retResp = FailureResponse("cannot be invoked through a proposal")
        /\ retResp.Response.Status = 500
        /\ ~Called("GetLedger")
        /\ ~Called("GetTransactionByID")
        /\ ~Called("checkACL")
        /\ ~Called("getTxSimulator")
        /\ NoExecution

C8_Witness == NotInvokable /\ pc = "returned" /\ chainID = "nochan" /\ txid = "tx1"

\* a channel-scoped request in which every step succeeded, the execution and
\* the ESCC with a status below ERRORTHRESHOLD, has returned
EndorsedSuccessfully ==
    /\ pc = "returned"
    /\ chainID # ""
    /\ "GetProposalResponse" \in Range(log)
    /\ res.Status < ERRORTHRESHOLD
    /\ esccRes.Status < ERRORTHRESHOLD

\* C9: when every step of a channel-scoped proposal succeeds, ProcessProposal
\* returns, with a nil error, the ProposalResponse unpacked from the ESCC's
\* payload, its Response.Payload set to the payload of the execution response.
C9_SuccessReturnsEndorsedResponse ==
    EndorsedSuccessfully =>
        /\ retErr = NilError
        /\ pResp \in UnpackedResponses
        /\ retResp = [pResp EXCEPT !.Response.Payload = res.Payload]
        /\ retResp.Response.Payload = res.Payload
        /\ retResp.Endorsement = "endorsement"

C9_Witness ==
    /\ EndorsedSuccessfully
    /\ pResp.Response.Payload # res.Payload
    /\ ~IsSysCC(ccName)

\* the ESCC was executed and its own response has an error-class status
EsccFailed == "ExecuteESCC" \in Range(log) /\ esccRes.Status >= ERRORTHRESHOLD

\* C10: when the ESCC's own response has a status >= ERRORTHRESHOLD,
\* endorseProposal returns a ProposalResponse that holds only that response
\* (no endorsement, no proposal response payload), and ProcessProposal
\* returns it, with the ESCC's status and message, and with no error other
\* than a chaincodeError.
C10_EsccErrorYieldsBareResponse ==
    EsccFailed =>
        /\ pc \in {"GetProposalResponse", "SetPayload", "returned"}
        /\ (pc = "SetPayload" => pResp = BareProposalResponse(esccRes))
        /\ (pc = "returned" =>
               /\ ~retResp.isNil
               /\ retResp.Endorsement = "none"
               /\ retResp.Payload = "none"
               /\ retResp.Response.Status = esccRes.Status
               /\ retResp.Response.Message = esccRes.Message
               /\ retErr.kind # "error")

C10_Witness ==
    /\ EsccFailed
    /\ pc = "returned"
    /\ retErr = NilError
    /\ retResp.Response.Status = 500

\* the first index of event e in the log, 0 when it is not there
FirstIndex(e) ==
    IF e \in Range(log) THEN CHOOSE i \in 1..Len(log) : log[i] = e /\ \A j \in 1..(i - 1) : log[j] # e
    ELSE 0

\* lscc's deploy or upgrade with at least 3 arguments, whose first execution
\* returned a status below ERRORTHRESHOLD, past the second step
DeployDone ==
    /\ ccName = "lscc"
    /\ Len(cis) >= 3
    /\ cis[1] \in {"deploy", "upgrade"}
    /\ "ExecuteChaincode" \in Range(log)
    /\ res.Status < ERRORTHRESHOLD
    /\ pc # "callChaincodeDeploy"

\* the second step of a deploy or upgrade failed
DeployFailed ==
    \E e \in {"GetChaincodeDeploymentSpec:err", "IsSysCC:err", "Execute:err"} :
        e \in Range(log)

\* C11: for lscc's deploy or upgrade with at least 3 arguments whose first
\* execution returns a non-error status, the deployed chaincode is executed in
\* the same request under the simulator of the first execution, before the
\* simulation results are taken; if the second step fails the request returns
\* an error-class response that is not the first step's response and carries
\* no simulation result and no endorsement.
C11_DeployExecutesTwiceOrAborts ==
    DeployDone =>
        IF DeployFailed
        THEN /\ pc = "returned"
             /\ ~retResp.isNil
             /\ retResp.Response.Status >= ERRORTHRESHOLD
             /\ retResp.Response # res
             /\ retResp.Payload = "none"
             /\ retResp.Endorsement = "none"
             /\ retErr.kind = "error"
             /\ simulationResult = "nil"
             /\ ~Called("GetTxSimulationResults")
             /\ ~Called("ExecuteESCC")
        ELSE /\ "Execute" \in Range(log)
             /\ FirstIndex("ExecuteChaincode") < FirstIndex("Execute")
             /\ Count(log, "getTxSimulator") <= 1
             /\ Count(log, "GetTxSimulationResults") <= 1
             /\ ("getTxSimulator" \in Range(log) =>
                    FirstIndex("getTxSimulator") < FirstIndex("ExecuteChaincode"))
             /\ ("Done" \in Range(log) => FirstIndex("Execute") < FirstIndex("Done"))
             /\ (Called("GetTxSimulationResults") =>
                    /\ "GetTxSimulationResults:err" \in Range(log)
                          => FirstIndex("Execute") < FirstIndex("GetTxSimulationResults:err")
                    /\ "GetTxSimulationResults" \in Range(log)
                          => FirstIndex("Execute") < FirstIndex("GetTxSimulationResults"))

C11_Witness ==
    /\ DeployDone
    /\ "Execute" \in Range(log)
    /\ chainID = "ch1"
    /\ simulationResult = "rwset"
    /\ pc = "returned"
    /\ retErr = NilError

\* the second step failed in each of the three ways
C11_WitnessAbort ==
    /\ DeployDone
    /\ "GetChaincodeDeploymentSpec:err" \in Range(log)
    /\ pc = "returned"

\* the definition of the invoked chaincode could not be resolved
DefinitionUnresolved == "getCDSFromLSCC:err" \in Range(log)

\* C12: when the definition of a non-system chaincode cannot be resolved the
\* request returns a response of status >= 500 whose message asks to make sure
\* the chaincode has been instantiated, and nothing is executed, distributed
\* or endorsed in that request.
C12_UnresolvedDefinitionRejected ==
    DefinitionUnresolved =>
        /\ ~IsSysCC(ccName)
        /\ pc = "returned"
        /\ ~retResp.isNil
        /\ retResp.Response.Status >= ERROR
        /\ retResp.Response.Message =
              "make sure the chaincode has been successfully instantiated and try again"
        /\ retResp.Endorsement = "none"
        /\ NoExecution
        /\ ~Called("distributePrivateData")
        /\ ~Called("ExecuteESCC")
        /\ ~Called("endorseProposal")

C12_Witness ==
    /\ DefinitionUnresolved
    /\ chainID = "ch1"
    /\ ccName = "mycc"
    /\ pc = "returned"

\* C13: Halt never panics, however its calls interleave: exitChan is never
\* closed a second time, and it is closed once a call of Halt has returned.
C13_HaltNeverPanics ==
    /\ panicked # "close of closed channel"
    /\ (haltCompleted => exitChan = "closed")

\* C14: a call of Order that has returned reports nil when its envelope was
\* written to the proxy while exitChan was open, and an error when the call
\* was made after a call of Halt had returned.
C14_OrderReportsAcceptance ==
    \A g \in Callers :
        call[g].ret # "none" =>
            /\ (call[g].sent = "open" => call[g].ret = "nil")
            /\ (call[g].afterHalt => call[g].ret = "err")

\* the execution of the invoked chaincode failed: an engine error, or a
\* response of status >= ERRORTHRESHOLD
ExecutionFailed ==
    \/ "ExecuteChaincode:err" \in Range(log)
    \/ "Execute:err" \in Range(log)
    \/ ("ExecuteChaincode" \in Range(log) /\ IsErrorStatus(res.Status))

\* C15: in a request whose chaincode execution returns a status >=
\* ERRORTHRESHOLD or an engine error, distributePrivateData is never invoked.
C15_NoDistributionAfterFailedExecution ==
    ExecutionFailed => ~Called("distributePrivateData")

\* the place in the log of the first call of e, failed or not
CallIndex(e) == IF e \in Range(log) THEN FirstIndex(e) ELSE FirstIndex(e \o ":err")

\* C16: when the simulation results have a private subset,
\* distributePrivateData is invoked, and it has returned before
\* GetPubSimulationBytes is called; both come before the ESCC is invoked.
C16_PrivateDataBeforePublicBytes ==
    simResult = "pub+pvt" =>
        /\ pc # "distributePrivateData" => Called("distributePrivateData")
        /\ Called("GetPubSimulationBytes") =>
              /\ "distributePrivateData" \in Range(log)
              /\ CallIndex("distributePrivateData") < CallIndex("GetPubSimulationBytes")
        /\ (Called("ExecuteESCC") \/ Called("endorseProposal")) =>
              /\ "distributePrivateData" \in Range(log)
              /\ "GetPubSimulationBytes" \in Range(log)
        /\ Called("ExecuteESCC") =>
              CallIndex("GetPubSimulationBytes") < CallIndex("ExecuteESCC")

C16_Witness ==
    /\ simResult = "pub+pvt"
    /\ "ExecuteESCC" \in Range(log)
    /\ pc = "returned"
    /\ retErr = NilError

\* the proposal is past the duplicate check on its channel
PastDuplicateCheck ==
    /\ chainID # ""
    /\ "GetTransactionByID" \in Range(log)
    /\ txid \notin CommittedTxs

\* C17: the ACL check is made for the channel-scoped proposals to a chaincode
\* that is not a system chaincode, once past the duplicate check, and for no
\* other proposal; when it fails the request returns a status-500 response and
\* no simulator is acquired and no chaincode executed.
C17_AclCheckedForUserChaincodeOnChannel ==
    /\ Called("checkACL") => (chainID # "" /\ ~IsSysCC(ccName))
    /\ (PastDuplicateCheck /\ ~IsSysCC(ccName) /\ pc # "checkACL") => Called("checkACL")
    /\ "checkACL:err" \in Range(log) =>
          /\ pc = "returned"
          /\ ~retResp.isNil
          /\ retResp.Response.Status = FailureStatus
          /\ retResp.Endorsement = "none"
          /\ txsim = "nil"
          /\ ~Called("getTxSimulator")
          /\ NoExecution

C17_Witness ==
    /\ "checkACL:err" \in Range(log)
    /\ chainID = "ch1"
    /\ ccName = "mycc"
    /\ pc = "returned"

\* the check is skipped for a system chaincode and for a chainless proposal
C17_WitnessSkipped ==
    /\ ~Called("checkACL")
    /\ "ExecuteChaincode" \in Range(log)
    /\ (chainID = "" /\ ccName = "mycc") \/ (chainID = "ch1" /\ ccName = "lscc")

\* an lscc install, deploy or upgrade is past the Java pre-check
LsccInstallOrDeploy ==
    /\ ccName = "lscc"
    /\ Len(cis) >= 1
    /\ cis[1] \in {"install", "deploy", "upgrade"}
    /\ Called("disableJavaCCInst")

\* its deployment spec has type JAVA while Java chaincode is disabled
JavaDisabledCase ==
    /\ LsccInstallOrDeploy
    /\ ~javaEnabled
    /\ Len(cis) > DepSpecArgNo(cis[1])
    /\ ValidBlob(cis[DepSpecArgNo(cis[1]) + 1])
    /\ DepSpec(cis[DepSpecArgNo(cis[1]) + 1]).Type = "JAVA"

\* the argument that holds its deployment spec is missing
MissingDepSpecCase ==
    /\ LsccInstallOrDeploy
    /\ Len(cis) < (IF cis[1] = "install" THEN 2 ELSE 3)

\* C18: an lscc install, deploy or upgrade of a JAVA deployment spec while Java
\* chaincode is disabled, or without the argument that holds the deployment
\* spec, fails in the pre-check: the request returns a status-500 response, no
\* definition is resolved and no chaincode is executed.
C18_JavaInstallRejectedBeforeExecution ==
    (JavaDisabledCase \/ MissingDepSpecCase) =>
        /\ "disableJavaCCInst:err" \in Range(log)
        /\ pc = "returned"
        /\ ~retResp.isNil
        /\ retResp.Response.Status = FailureStatus
        /\ retResp.Endorsement = "none"
        /\ ~Called("getCDSFromLSCC")
        /\ NoExecution

C18_Witness ==
    /\ JavaDisabledCase
    /\ cis[1] = "deploy"
    /\ pc = "returned"

C18_WitnessMissing ==
    /\ MissingDepSpecCase
    /\ pc = "returned"

\* C19: the ESCC invoked is "escc" for a system chaincode (no definition was
\* resolved) and the one named by the resolved definition otherwise; a
\* definition that names none makes endorseProposal panic without invoking an
\* ESCC; the ESCC is invoked at the version of the system chaincodes.
C19_EsccSelection ==
    /\ Called("ExecuteESCC") =>
          /\ IsSysCC(ccName) => (cdLedger.isNil /\ escc = "escc")
          /\ ~IsSysCC(ccName) => (~cdLedger.isNil /\ escc = cdLedger.Endorsement)
          /\ escc # ""
          /\ version = SysCCVersion
    /\ (Called("endorseProposal") /\ ~cdLedger.isNil /\ cdLedger.Endorsement = "") =>
          /\ pc = "panicked"
          /\ "panic" \in Range(log)
          /\ ~Called("ExecuteESCC")
    /\ pc = "panicked" => (~cdLedger.isNil /\ cdLedger.Endorsement = "")

C19_Witness ==
    /\ "ExecuteESCC" \in Range(log)
    /\ ccName = "mycc"
    /\ escc = "myescc"
    /\ pc = "returned"

\* the definition names no ESCC
C19_WitnessPanic ==
    /\ pc = "panicked"
    /\ ccName = "mycc"

\* simulateProposal has returned without error: the chaincode was executed
\* and no later step of the simulation failed or is still to come
SimulationSucceeded ==
    /\ "ExecuteChaincode" \in Range(log)
    /\ \A e \in {"GetChaincodeDeploymentSpec:err", "IsSysCC:err", "Execute:err",
                 "GetTxSimulationResults:err", "distributePrivateData:err",
                 "GetPubSimulationBytes:err"} : e \notin Range(log)
    /\ pc \notin {"callChaincodeDeploy", "GetTxSimulationResults",
                  "distributePrivateData", "GetPubSimulationBytes"}
    /\ (pc = "callChaincode" => caller = "endorseProposal")

\* the conditions under which the claim says the ESCC is invoked
EndorsementDue == chainID # "" /\ SimulationSucceeded /\ res.Status < ERROR

\* C20 as stated: in a request that has ended the ESCC has been invoked if and
\* only if the proposal is channel-scoped, simulateProposal returned without
\* error and the status of the response is below ERROR.
C20_EsccInvokedIffDue ==
    Terminated => (Called("ExecuteESCC") <=> EndorsementDue)

\* C20: endorseProposal is called if and only if the proposal is
\* channel-scoped, simulateProposal returned without error and the status of
\* the response is below ERROR; the ESCC is invoked only then, and always then
\* unless endorseProposal panics or fails to marshal its arguments; with a
\* status in [ERRORTHRESHOLD, ERROR) the endorsed response is returned with a
\* chaincodeError; a chainless proposal is never endorsed.
C20_EndorseProposalIffDue ==
    /\ pc \notin {"CheckResponse", "endorseProposal"} =>
          (Called("endorseProposal") <=> EndorsementDue)
    /\ Called("ExecuteESCC") => EndorsementDue
    /\ (Terminated /\ EndorsementDue) =>
          \/ Called("ExecuteESCC")
          \/ (pc = "panicked" /\ ~cdLedger.isNil /\ cdLedger.Endorsement = "")
          \/ "Marshal:err" \in Range(log)
    /\ (/\ pc = "returned"
        /\ EndorsementDue
        /\ res.Status >= ERRORTHRESHOLD
        /\ "GetProposalResponse" \in Range(log)) =>
          /\ retResp.Endorsement # "none"
          /\ retErr = chaincodeError(res.Status, res.Message)
    /\ chainID = "" => (~Called("endorseProposal") /\ ~Called("ExecuteESCC"))

C20_Witness ==
    /\ pc = "returned"
    /\ EndorsementDue
    /\ res.Status >= ERRORTHRESHOLD
    /\ "GetProposalResponse" \in Range(log)
    /\ retResp.Endorsement # "none"

\* C21: whenever ProcessProposal returns a nil error, the response it returns
\* has a status below ERRORTHRESHOLD.
C21_NilErrorMeansSuccessStatus ==
    (pc = "returned" /\ retErr = NilError) =>
        /\ ~retResp.isNil
        /\ retResp.Response.Status < ERRORTHRESHOLD

\* C22: sendLock is released whenever sendEnvToBFTProxy has returned: once a
\* call of Order has returned the lock is free, and no call of Order waits for
\* a lock that nobody holds any more.
C22_SendLockReleased ==
    panicked = "none" =>
        /\ (\E g \in Callers : call[g].ret # "none") => sendLock = "unlocked"
        /\ \A g \in Callers : gpc[g] = "sendEnvToBFTProxy" => sendLock = "unlocked"

\* C23: once a call of Halt has returned on a chain whose goroutines were
\* started, neither goroutine is left blocked for ever: appendToChain has
\* returned or can take a case of its select, and connLoop, when it is sending
\* on sendChan, has a receiver to take the block.
C23_GoroutinesTerminateAfterHalt ==
    (haltCompleted /\ panicked = "none" /\ connPc # "off") =>
        /\ appendPc = "returned" \/ ENABLED appendToChain_exit \/ ENABLED appendToChain
        /\ connPc = "send" => ENABLED appendToChain

\* C24: the envelope of a call of Order that has returned an error, the
\* shutdown error included, was not written to the send connection, and a
\* call of Order made after a call of Halt had returned writes no envelope.
C24_NoForwardingAfterHalt ==
    \A g \in Callers :
        /\ (call[g].ret = "err" /\ gpc[g] = "idle") => call[g].sent = "no"
        /\ call[g].afterHalt => call[g].sent = "no"
====
